---- MODULE Spec2Model ----
(***************************************************************************)
(* Model of src/index.js: an MCP server with two tool handlers,            *)
(* get_weather (one outbound HTTP request, summary formatting) and         *)
(* read_file (path guard + one UTF-8 file read).                           *)
(*                                                                         *)
(* A JavaScript string is a sequence of chunks; a chunk is a TLA+ string   *)
(* standing for a fixed piece of text.  The chunk alphabets are prefix     *)
(* free, so two strings are equal exactly when their chunk sequences are,  *)
(* and startsWith / includes are the sequence prefix / infix relations.    *)
(***************************************************************************)
EXTENDS Integers, Sequences, FiniteSets, TLC

VARIABLES
  pc,            \* "idle" | "gw_fetch" | "gw_json" | "rf_read" | "done"
  tool,          \* "none" | "get_weather" | "read_file"
  arg,           \* the string argument of the call in flight (location / filename)
  filepath,      \* read_file: the resolved path (line 95)
  outcome,       \* "none" | "returned" | "threw"
  result,        \* the content array returned by the handler (<<>> before it returns)
  fault,         \* name of the exception that left the handler ("none" otherwise)
  httpRequests,  \* fetch() calls made by the call in flight
  sentUrl,       \* URL of the request made by the call in flight
  response,      \* the provider's response, once fetch() has resolved
  jsonCalls,     \* response.json() calls made by the call in flight
  fsReads,       \* fs.readFile() calls made by the call in flight
  readError,     \* error code of the failed fs.readFile ("none" otherwise)
  files          \* the disk: state of files/x (the other nodes are fixed)

vars == <<pc, tool, arg, filepath, outcome, result, fault, httpRequests, sentUrl,
          response, jsonCalls, fsReads, readError, files>>

----------------------------------------------------------------------------
(* Bounds *)

MaxNameLen == 4

MaxLocLen == 2

----------------------------------------------------------------------------
(* Strings *)

RECURSIVE SeqsUpTo(_, _)
SeqsUpTo(S, n) ==
  IF n = 0 THEN {<<>>}
  ELSE LET shorter == SeqsUpTo(S, n - 1)
       IN  shorter \cup {Append(s, c) : s \in {t \in shorter : Len(t) = n - 1}, c \in S}

\* String.prototype.startsWith
StartsWith(s, p) == Len(p) <= Len(s) /\ SubSeq(s, 1, Len(p)) = p

\* String.prototype.includes
Contains(s, p) ==
  \E i \in 0..(Len(s) - Len(p)) : SubSeq(s, i + 1, i + Len(p)) = p

----------------------------------------------------------------------------
(* path (POSIX) *)

\* Split a path string on "/" into its segments (empty segments included).
RECURSIVE SplitFrom(_, _, _, _)
SplitFrom(s, i, cur, acc) ==
  IF i > Len(s) THEN Append(acc, cur)
  ELSE IF s[i] = "/" THEN SplitFrom(s, i + 1, <<>>, Append(acc, cur))
  ELSE SplitFrom(s, i + 1, Append(cur, s[i]), acc)

Split(s) == SplitFrom(s, 1, <<>>, <<>>)

\* normalizeString of an absolute path: drop empty and "." segments, let ".."
\* remove the segment before it (and nothing at the root).
RECURSIVE NormalizeFrom(_, _, _)
NormalizeFrom(segs, i, acc) ==
  IF i > Len(segs) THEN acc
  ELSE IF segs[i] = <<>> \/ segs[i] = <<".">> THEN NormalizeFrom(segs, i + 1, acc)
  ELSE IF segs[i] = <<".", ".">>
       THEN NormalizeFrom(segs, i + 1,
                          IF acc = <<>> THEN acc ELSE SubSeq(acc, 1, Len(acc) - 1))
  ELSE NormalizeFrom(segs, i + 1, Append(acc, segs[i]))

Normalize(segs) == NormalizeFrom(segs, 1, <<>>)

\* The absolute path string of a segment list: "/" + segments joined by "/".
RECURSIVE JoinFrom(_, _)
JoinFrom(segs, i) ==
  IF i > Len(segs) THEN <<>>
  ELSE (IF i = 1 THEN <<>> ELSE <<"/">>) \o segs[i] \o JoinFrom(segs, i + 1)

Render(segs) == <<"/">> \o JoinFrom(segs, 1)

\* path.resolve(base, name) for an absolute base: an absolute name replaces the
\* base, an empty name is skipped, anything else is appended; then normalised.
pathResolve(base, name) ==
  LET joined == IF name = <<>> THEN base
                ELSE IF Head(name) = "/" THEN name
                ELSE base \o <<"/">> \o name
  IN  Render(Normalize(Split(joined)))

\* path.join(a, b): normalise a + "/" + b (a absolute here).
pathJoin(a, b) == Render(Normalize(Split(a \o <<"/">> \o b)))

\* path.dirname(new URL(import.meta.url).pathname): the directory index.js is in.
ProjectDir == <<"/">>

FILES_DIR == pathJoin(ProjectDir, <<"files">>)

----------------------------------------------------------------------------
(* The disk *)

FileContents ==
  { <<>>,
    <<104, 105>>,            \* "hi"
    <<104, 105, 13, 10>>,    \* "hi\r\n"
    <<195, 169>>,            \* U+00E9 in UTF-8
    <<104, 255>>,            \* 0xFF is never valid in UTF-8
    <<195>> }                \* a truncated two-byte sequence

FileStates ==
  {[exists |-> FALSE, readable |-> TRUE, bytes |-> <<>>]}
    \cup [exists : {TRUE}, readable : BOOLEAN, bytes : FileContents]

SecretBytes == <<105, 104>>

OutsideBytes == <<104>>

\* The node at a normalised segment list.  The tree is
\*   /files/x   the one file of the sandbox (its state is the variable files)
\*   /filesx/x  a file in a sibling directory whose name begins with "files"
\*   /x         a file one level above the sandbox
Stat(segs) ==
  IF segs = <<>> THEN [kind |-> "dir"]
  ELSE IF segs = <<<<"files">>>> THEN [kind |-> "dir"]
  ELSE IF segs = <<<<"files">>, <<"x">>>> /\ files.exists
       THEN [kind |-> "file", readable |-> files.readable, bytes |-> files.bytes]
  ELSE IF segs = <<<<"files", "x">>>> THEN [kind |-> "dir"]
  ELSE IF segs = <<<<"files", "x">>, <<"x">>>>
       THEN [kind |-> "file", readable |-> TRUE, bytes |-> SecretBytes]
  ELSE IF segs = <<<<"x">>>>
       THEN [kind |-> "file", readable |-> TRUE, bytes |-> OutsideBytes]
  ELSE [kind |-> "none"]

\* Is some proper ancestor of segs a regular file?
ThroughFile(segs) ==
  \E n \in 1..(Len(segs) - 1) : Stat(SubSeq(segs, 1, n)).kind = "file"

\* The operating system's answer to reading the whole file at path p.
ReadBytes(p) ==
  LET segs == Normalize(Split(p))
      node == Stat(segs)
  IN  IF node.kind = "dir" THEN [ok |-> FALSE, code |-> "EISDIR", bytes |-> <<>>]
      ELSE IF node.kind = "none"
           THEN [ok |-> FALSE,
                 code |-> IF ThroughFile(segs) THEN "ENOTDIR" ELSE "ENOENT",
                 bytes |-> <<>>]
      ELSE IF ~node.readable THEN [ok |-> FALSE, code |-> "EACCES", bytes |-> <<>>]
      ELSE [ok |-> TRUE, code |-> "none", bytes |-> node.bytes]

----------------------------------------------------------------------------
(* UTF-8 *)

\* The character with code point cp, as a chunk.
CharOf(cp) ==
  CASE cp = 104 -> "h"
    [] cp = 105 -> "i"
    [] cp = 13 -> "\r"
    [] cp = 10 -> "\n"
    [] cp = 233 -> "U+00E9"
    [] cp = 65533 -> "U+FFFD"

IsContinuation(b) == b >= 128 /\ b <= 191

\* Buffer.toString("utf-8"): ASCII bytes are themselves, a two-byte lead with
\* its continuation is one character, every other byte becomes U+FFFD.
RECURSIVE DecodeFrom(_, _)
DecodeFrom(bytes, i) ==
  IF i > Len(bytes) THEN <<>>
  ELSE IF bytes[i] < 128 THEN <<CharOf(bytes[i])>> \o DecodeFrom(bytes, i + 1)
  ELSE IF bytes[i] >= 194 /\ bytes[i] <= 223 /\ i < Len(bytes) /\ IsContinuation(bytes[i + 1])
       THEN <<CharOf((bytes[i] - 192) * 64 + (bytes[i + 1] - 128))>> \o DecodeFrom(bytes, i + 2)
  ELSE <<CharOf(65533)>> \o DecodeFrom(bytes, i + 1)

Utf8Decode(bytes) == DecodeFrom(bytes, 1)

----------------------------------------------------------------------------
(* read_file *)

TextContent(text) == <<[type |-> "text", text |-> text]>>

AccessDeniedText == <<"Access denied: path is outside the files directory.">>

FileNotFoundText(filename) ==
  <<"File not found: \"">> \o filename \o <<"\" does not exist in the files/ directory">>

\* The path-traversal guard of line 96.
GuardAccepts(p) == StartsWith(p, FILES_DIR)

\* A catch block that reports the error code.
CatchText_WithCode(filename, code) == FileNotFoundText(filename) \o <<" (", code, ")">>

\* The text the catch block of read_file returns for a read error.
CatchText(filename, code) == FileNotFoundText(filename)

\* A read that normalises line endings.
ReadText_NormalizesNewlines(bytes) == SelectSeq(Utf8Decode(bytes), LAMBDA c : c # "\r")

\* The text read_file returns for the bytes it has read.
ReadText(bytes) == Utf8Decode(bytes)

NameAlphabet == {".", "/", "files", "x"}

Filenames == SeqsUpTo(NameAlphabet, MaxNameLen)

\* Lines 91-104: resolve, guard, and either return the denial or start the read.
CallReadFile(filename) ==
  /\ pc = "idle"
  /\ tool' = "read_file"
  /\ arg' = filename
  /\ filepath' = pathResolve(FILES_DIR, filename)
  /\ IF ~GuardAccepts(filepath')
     THEN /\ pc' = "done"
          /\ outcome' = "returned"
          /\ result' = TextContent(AccessDeniedText)
          /\ UNCHANGED fsReads
     ELSE /\ pc' = "rf_read"
          /\ fsReads' = fsReads + 1
          /\ UNCHANGED <<outcome, result>>
  /\ UNCHANGED <<fault, httpRequests, sentUrl, response, jsonCalls, readError, files>>

\* Lines 104-113: the read settles; success returns the text, any error is caught.
ReadSettle ==
  /\ pc = "rf_read"
  /\ LET r == ReadBytes(filepath)
     IN  /\ readError' = r.code
         /\ result' = IF r.ok THEN TextContent(ReadText(r.bytes))
                      ELSE TextContent(CatchText(arg, r.code))
  /\ outcome' = "returned"
  /\ pc' = "done"
  /\ UNCHANGED <<tool, arg, filepath, fault, httpRequests, sentUrl, response,
                 jsonCalls, fsReads, files>>

\* Something outside the server rewrites files/x between calls.
FsChange ==
  /\ pc = "idle"
  /\ \E f \in FileStates : f # files /\ files' = f
  /\ UNCHANGED <<pc, tool, arg, filepath, outcome, result, fault, httpRequests,
                 sentUrl, response, jsonCalls, fsReads, readError>>

----------------------------------------------------------------------------
(* get_weather *)

WEATHER_API_KEY == <<"9e16d62c8463bb8555971f49447c76e1">>

\* Chunks a location is made of: a word, a space, the text of the API key, and
\* a lone UTF-16 high surrogate (a JSON string may carry one as "\ud800").
LocAlphabet == {"Tampa", " ", "9e16d62c8463bb8555971f49447c76e1", "<U+D800>"}

Locations == SeqsUpTo(LocAlphabet, MaxLocLen)

\* encodeURIComponent throws URIError on a string holding a lone surrogate.
EncodeThrows(s) == \E i \in 1..Len(s) : s[i] = "<U+D800>"

\* encodeURIComponent: unreserved characters stay, the others are %-escaped.
encodeURIComponent(s) == [i \in 1..Len(s) |-> IF s[i] = " " THEN "%20" ELSE s[i]]

\* The request URL of line 39.
Url(location) ==
  <<"https://api.openweathermap.org/data/2.5/weather?q=">>
    \o encodeURIComponent(location)
    \o <<"&appid=">> \o WEATHER_API_KEY \o <<"&units=imperial">>

Statuses == {200, 401, 404, 500}

\* Response.ok
ResponseOk(status) == status >= 200 /\ status <= 299

\* JSON objects are functions on their keys; a missing field is a missing key.
\* Numbers are integers: temperatures and speeds count tenths, humidity counts
\* percent, visibility counts meters.
Has(obj, k) == k \in DOMAIN obj

Without(obj, k) == [x \in DOMAIN obj \ {k} |-> obj[x]]

BaseData ==
  [name |-> <<"Tampa">>,
   sys |-> [country |-> <<"US">>],
   weather |-> <<[description |-> <<"clear sky">>]>>,
   main |-> [temp |-> 680, feels_like |-> 665, humidity |-> 40],
   wind |-> [speed |-> 52],
   visibility |-> 10000]

\* The body the provider sends with an error status.
ErrorData == [cod |-> <<"404">>, message |-> <<"city not found">>]

DataSet ==
  {BaseData, ErrorData}
    \cup {Without(BaseData, k) : k \in DOMAIN BaseData}
    \cup {[BaseData EXCEPT !.sys = Without(@, "country")],
          [BaseData EXCEPT !.weather = <<>>],
          [BaseData EXCEPT !.weather = <<Without(@[1], "description")>>],
          [BaseData EXCEPT !.wind = Without(@, "speed")]}
    \cup {[BaseData EXCEPT !.main = Without(@, k)] : k \in {"temp", "feels_like", "humidity"}}
    \cup {[BaseData EXCEPT !.main.temp = t] : t \in {320, 319, 1004, -400}}
    \cup {[BaseData EXCEPT !.visibility = v] : v \in {0, 800, 4828}}
    \cup {[BaseData EXCEPT !.name = WEATHER_API_KEY],
          [BaseData EXCEPT !.weather = <<[description |-> WEATHER_API_KEY]>>]}

\* A response body: text that is not JSON ("invalid", its data is never
\* looked at) or a JSON object.
Bodies ==
  {[kind |-> "invalid", data |-> ErrorData]} \cup [kind : {"json"}, data : DataSet]

\* The value of response before fetch() has resolved.
NoResponse == [status |-> 0, body |-> [kind |-> "none", data |-> ErrorData]]

\* The decimal numeral of a natural number.
Digits(n) == ToString(n)

\* Number.prototype.toFixed(1) of the number num/den (den > 0): the nearest
\* multiple of 0.1, written with one fraction digit and a sign when negative.
toFixed1(num, den) ==
  LET a == IF num < 0 THEN -num ELSE num
      n == (a * 20 + den) \div (2 * den)
  IN  (IF num < 0 THEN "-" ELSE "") \o Digits(n \div 10) \o "." \o Digits(n % 10)

\* A field access or method call of lines 54-62 throws TypeError.
FieldFault(data) ==
  \/ ~Has(data, "sys")
  \/ ~Has(data, "weather")
  \/ Len(data.weather) = 0
  \/ ~Has(data, "main")
  \/ ~Has(data.main, "temp")
  \/ ~Has(data.main, "feels_like")
  \/ ~Has(data, "wind")
  \/ ~Has(data.wind, "speed")

\* Template interpolation of a string field that may be undefined.
StrField(obj, k) == IF Has(obj, k) THEN obj[k] ELSE <<"undefined">>

\* Line 62: data.visibility ? (data.visibility / 1000).toFixed(1) : "N/A"
VisibilityText(data) ==
  IF Has(data, "visibility") /\ data.visibility # 0
  THEN toFixed1(data.visibility, 1000)
  ELSE "N/A"

\* Lines 54-71, for a body with no FieldFault.  "<deg>" stands for the degree sign.
Summary(data) ==
  <<"Weather for ">> \o StrField(data, "name") \o <<", ">> \o StrField(data.sys, "country")
    \o <<"\n", "Condition:   ">> \o StrField(data.weather[1], "description")
    \o <<"\n", "Temperature: ", toFixed1((data.main.temp - 320) * 5, 90), "<deg>C / ",
         toFixed1(data.main.temp, 10), "<deg>F (feels like ",
         toFixed1(data.main.feels_like, 10), "<deg>F)",
         "\n", "Humidity:    ",
         IF Has(data.main, "humidity") THEN Digits(data.main.humidity) ELSE "undefined", "%",
         "\n", "Wind:        ", toFixed1(data.wind.speed, 10), " mph",
         "\n", "Visibility:  ", VisibilityText(data), " km">>

\* A message that shows the location as it was sent.
FetchFailedText_Encoded(location, status) ==
  <<"Failed to fetch weather for \"">> \o encodeURIComponent(location)
    \o <<"\": HTTP ", Digits(status)>>

\* A message that shows the request URL.
FetchFailedText_WithUrl(location, status) ==
  <<"Failed to fetch weather for \"">> \o location \o <<"\": HTTP ", Digits(status)>>
    \o <<" from ">> \o Url(location)

\* Line 47.
FetchFailedText(location, status) ==
  <<"Failed to fetch weather for \"">> \o location \o <<"\": HTTP ", Digits(status)>>

\* Lines 38-41: build the URL and start the one request.
CallGetWeather(location) ==
  /\ pc = "idle"
  /\ tool' = "get_weather"
  /\ arg' = location
  /\ IF EncodeThrows(location)
     THEN /\ pc' = "done"
          /\ outcome' = "threw"
          /\ fault' = "URIError"
          /\ UNCHANGED <<httpRequests, sentUrl>>
     ELSE /\ pc' = "gw_fetch"
          /\ httpRequests' = httpRequests + 1
          /\ sentUrl' = Url(location)
          /\ UNCHANGED <<outcome, fault>>
  /\ UNCHANGED <<filepath, result, response, jsonCalls, fsReads, readError, files>>

\* A handler that repeats the request once after a server error.
FetchResolve_RetriesOn5xx(status, body) ==
  /\ pc = "gw_fetch"
  /\ response' = [status |-> status, body |-> body]
  /\ IF status >= 500 /\ httpRequests < 2
     THEN /\ httpRequests' = httpRequests + 1
          /\ UNCHANGED <<pc, outcome, result, jsonCalls>>
     ELSE /\ UNCHANGED httpRequests
          /\ IF ~ResponseOk(status)
             THEN /\ pc' = "done"
                  /\ outcome' = "returned"
                  /\ result' = TextContent(FetchFailedText(arg, status))
                  /\ UNCHANGED jsonCalls
             ELSE /\ pc' = "gw_json"
                  /\ jsonCalls' = jsonCalls + 1
                  /\ UNCHANGED <<outcome, result>>
  /\ UNCHANGED <<tool, arg, filepath, fault, sentUrl, fsReads, readError, files>>

\* Lines 41-52: the response arrives; a non-success status is reported, a
\* success status goes on to response.json().
FetchResolve(status, body) ==
  /\ pc = "gw_fetch"
  /\ response' = [status |-> status, body |-> body]
  /\ IF ~ResponseOk(status)
     THEN /\ pc' = "done"
          /\ outcome' = "returned"
          /\ result' = TextContent(FetchFailedText(arg, status))
          /\ UNCHANGED jsonCalls
     ELSE /\ pc' = "gw_json"
          /\ jsonCalls' = jsonCalls + 1
          /\ UNCHANGED <<outcome, result>>
  /\ UNCHANGED <<tool, arg, filepath, fault, httpRequests, sentUrl, fsReads, readError, files>>

\* Line 41: the provider cannot be reached; fetch() rejects and nothing catches it.
FetchReject ==
  /\ pc = "gw_fetch"
  /\ pc' = "done"
  /\ outcome' = "threw"
  /\ fault' = "TypeError: fetch failed"
  /\ UNCHANGED <<tool, arg, filepath, result, httpRequests, sentUrl, response,
                 jsonCalls, fsReads, readError, files>>

\* Lines 52-75: the body is parsed and the summary is built.
JsonSettle ==
  /\ pc = "gw_json"
  /\ pc' = "done"
  /\ IF response.body.kind = "invalid"
     THEN outcome' = "threw" /\ fault' = "SyntaxError" /\ UNCHANGED result
     ELSE IF FieldFault(response.body.data)
     THEN outcome' = "threw" /\ fault' = "TypeError" /\ UNCHANGED result
     ELSE /\ outcome' = "returned"
          /\ result' = TextContent(Summary(response.body.data))
          /\ UNCHANGED fault
  /\ UNCHANGED <<tool, arg, filepath, httpRequests, sentUrl, response, jsonCalls,
                 fsReads, readError, files>>

----------------------------------------------------------------------------

Init ==
  /\ pc = "idle"
  /\ tool = "none"
  /\ arg = <<>>
  /\ filepath = <<>>
  /\ outcome = "none"
  /\ result = <<>>
  /\ fault = "none"
  /\ httpRequests = 0
  /\ sentUrl = <<>>
  /\ response = NoResponse
  /\ jsonCalls = 0
  /\ fsReads = 0
  /\ readError = "none"
  /\ files = [exists |-> TRUE, readable |-> TRUE, bytes |-> <<104, 105>>]

\* The call is over; the transport delivers the next one.
Return ==
  /\ pc = "done"
  /\ pc' = "idle"
  /\ tool' = "none"
  /\ arg' = <<>>
  /\ filepath' = <<>>
  /\ outcome' = "none"
  /\ result' = <<>>
  /\ fault' = "none"
  /\ httpRequests' = 0
  /\ sentUrl' = <<>>
  /\ response' = NoResponse
  /\ jsonCalls' = 0
  /\ fsReads' = 0
  /\ readError' = "none"
  /\ UNCHANGED files

Next ==
  \/ \E location \in Locations : CallGetWeather(location)
  \/ \E status \in Statuses, body \in Bodies : FetchResolve(status, body)
  \/ FetchReject
  \/ JsonSettle
  \/ \E filename \in Filenames : CallReadFile(filename)
  \/ ReadSettle
  \/ FsChange
  \/ Return

Spec == Init /\ [][Next]_vars

----------------------------------------------------------------------------
(* Vocabulary of the properties *)

\* The text of the single block the handler returned.
Text == result[1].text

Returned == outcome = "returned"

OneTextBlock == Len(result) = 1 /\ result[1].type = "text"

\* p is the sandbox root or begins with the root followed by the separator.
InsideRoot(p) == p = FILES_DIR \/ StartsWith(p, FILES_DIR \o <<"/">>)

\* The location p names is the sandbox root or lies below it.
IsWithin(p) == StartsWith(Normalize(Split(p)), Normalize(Split(FILES_DIR)))

IsSummary(text) == StartsWith(text, <<"Weather for ">>)

\* The UTF-8 bytes of a character.
EncodeChar(c) ==
  CASE c = "h" -> <<104>>
    [] c = "i" -> <<105>>
    [] c = "\r" -> <<13>>
    [] c = "\n" -> <<10>>
    [] c = "U+00E9" -> <<195, 169>>
    [] c = "U+FFFD" -> <<239, 191, 189>>

RECURSIVE Utf8Encode(_)
Utf8Encode(text) ==
  IF text = <<>> THEN <<>> ELSE EncodeChar(Head(text)) \o Utf8Encode(Tail(text))

\* Well-formed UTF-8 made of one- and two-byte sequences.
RECURSIVE ValidFrom(_, _)
ValidFrom(bytes, i) ==
  IF i > Len(bytes) THEN TRUE
  ELSE IF bytes[i] < 128 THEN ValidFrom(bytes, i + 1)
  ELSE /\ bytes[i] >= 194 /\ bytes[i] <= 223
       /\ i < Len(bytes)
       /\ bytes[i + 1] >= 128 /\ bytes[i + 1] <= 191
       /\ ValidFrom(bytes, i + 2)

ValidUtf8(bytes) == ValidFrom(bytes, 1)

\* The body lacks one of the fields the summary is built from.
LacksField(data) ==
  \/ ~Has(data, "name")
  \/ ~Has(data, "sys") \/ ~Has(data.sys, "country")
  \/ ~Has(data, "weather") \/ Len(data.weather) = 0 \/ ~Has(data.weather[1], "description")
  \/ ~Has(data, "main") \/ ~Has(data.main, "temp") \/ ~Has(data.main, "feels_like")
     \/ ~Has(data.main, "humidity")
  \/ ~Has(data, "wind") \/ ~Has(data.wind, "speed")

Malformed(body) == body.kind = "invalid" \/ LacksField(body.data)

\* The part of the request URL that carries the credential.
AppIdPart == <<"&appid=">> \o WEATHER_API_KEY \o <<"&units=imperial">>

----------------------------------------------------------------------------
(* C1 *)

\* C1: whenever the path guard has let a read_file call through to the file
\* read, the resolved path equals the sandbox root or starts with the root
\* followed by the path separator; a path in a sibling directory whose name
\* begins with the root's name never reaches the read.
C1_GuardNeedsSeparator ==
  (tool = "read_file" /\ fsReads > 0) => InsideRoot(filepath)

----------------------------------------------------------------------------
(* C2 *)

\* C2: a read_file call whose filename resolves outside the sandbox root makes
\* no filesystem read and ends by returning the fixed access-denied text.
C2_OutsideIsDeniedUnread ==
  (tool = "read_file" /\ ~IsWithin(filepath)) =>
    /\ fsReads = 0
    /\ pc = "done"
    /\ Returned
    /\ result = TextContent(AccessDeniedText)

----------------------------------------------------------------------------
(* C3 *)

\* C3: every finished invocation of either handler has returned exactly one
\* result and no exception has left the handler.
C3_HandlersAlwaysReturn ==
  pc = "done" => (Returned /\ OneTextBlock /\ fault = "none")

----------------------------------------------------------------------------
(* C4 *)

\* C4: when the provider answers with a success status and a body that cannot
\* be parsed or lacks an expected field, get_weather returns a failure text
\* (not a weather summary) and raises nothing.
C4_MalformedBodyIsFailure ==
  (pc = "done" /\ tool = "get_weather" /\ ResponseOk(response.status)
     /\ Malformed(response.body)) =>
    (Returned /\ fault = "none" /\ ~IsSummary(Text))

----------------------------------------------------------------------------
(* C5 *)

\* C5: once the provider has answered get_weather with a non-success status,
\* the call is over, it has returned one text block that is a failure message
\* containing the location exactly as supplied and the numeric status code,
\* and response.json() was never called.
C5_NonSuccessStatusReported ==
  (tool = "get_weather" /\ response.status # 0 /\ ~ResponseOk(response.status)) =>
    /\ pc = "done"
    /\ Returned /\ OneTextBlock /\ fault = "none"
    /\ StartsWith(Text, <<"Failed to fetch weather for \"">>)
    /\ Contains(Text, arg)
    /\ Contains(Text, <<Digits(response.status)>>)
    /\ jsonCalls = 0

C5_Witness ==
  /\ pc = "done" /\ tool = "get_weather" /\ Returned
  /\ arg = <<"Tampa", " ">>
  /\ response.status = 404
  /\ Contains(Text, <<"Tampa", " ">>) /\ Contains(Text, <<"404">>)

----------------------------------------------------------------------------
(* C6 *)

----------------------------------------------------------------------------
(* C7 *)

\* C7: a read_file call that passed the guard and whose read failed, for
\* whatever reason, is over, has raised nothing, and has returned the one
\* file-not-found text built from the filename as supplied.
C7_ReadFailuresCollapse ==
  (tool = "read_file" /\ readError # "none") =>
    /\ pc = "done"
    /\ Returned /\ fault = "none"
    /\ result = TextContent(FileNotFoundText(arg))

\* The empty filename resolves to the sandbox root, a directory.
C7_Witness ==
  /\ pc = "done" /\ tool = "read_file"
  /\ arg = <<>> /\ filepath = FILES_DIR
  /\ readError = "EISDIR"
  /\ result = TextContent(FileNotFoundText(<<>>))

----------------------------------------------------------------------------
(* C8 *)

----------------------------------------------------------------------------
(* C9 *)

\* C9: in a returned summary the visibility line shows meters / 1000 with one
\* decimal whenever the body has a visibility field, 0 included, and "N/A"
\* exactly when the field is absent.
C9_VisibilityShownWhenPresent ==
  (pc = "done" /\ tool = "get_weather" /\ Returned /\ IsSummary(Text)) =>
    LET data == response.body.data
        shown == Text[Len(Text) - 1]
    IN  IF Has(data, "visibility")
        THEN shown = toFixed1(data.visibility, 1000)
        ELSE shown = "N/A"

----------------------------------------------------------------------------
(* C10 *)

\* What holds of every call, whatever the request count: no attempt is
\* repeated, a read_file call makes no request and a get_weather call no read,
\* and a call has no outcome before it ends and exactly one when it ends,
\* a returned block or a propagated exception.
SingleShot ==
  /\ httpRequests <= 1 /\ jsonCalls <= 1 /\ fsReads <= 1
  /\ tool = "read_file" => httpRequests = 0
  /\ tool = "get_weather" => fsReads = 0
  /\ pc # "done" => (outcome = "none" /\ result = <<>> /\ fault = "none")
  /\ pc = "done" =>
       \/ Returned /\ OneTextBlock /\ fault = "none"
       \/ outcome = "threw" /\ result = <<>> /\ fault # "none"

====
